---------------------------- MODULE Spec2Model ----------------------------
(***************************************************************************)
(* Model of the node / handover / hypergraph evolution engine of           *)
(* src/src/arkhe/anl/python/runtime.py (section 3, "CORE CLASSES").        *)
(*                                                                         *)
(* Numbers.  Python floats are modelled in fixed point:                    *)
(*   local_coherence, entanglement   tenths      (10 is 1.0)               *)
(*   fidelity and the random draw    1/DrawScale (DrawScale is 1.0; a draw *)
(*                                   is in 0 .. DrawScale-1, 0 being 0.0)  *)
(*   phase_accumulated               milliradians                         *)
(*   dt, time                        abstract ticks                        *)
(*   global_coherence                an exact fraction of tenths, reduced; *)
(*                                   NaN is the fraction 0/0               *)
(* Node objects live in a heap and are referred to by their index, so that *)
(* the graph and the handovers share references as the Python objects do.  *)
(*                                                                         *)
(* ExpressionEngine (section 2) is modelled on texts held as sequences of  *)
(* one-character strings, with Python's eval cut down to the texts the     *)
(* tensor-subscript rewrite produces: a name subscripted by one token.     *)
(***************************************************************************)
EXTENDS Integers, Sequences, FiniteSets, TLC

\* ------------------------------------------------------------- bounds
MaxObjs == 2
MaxHandovers == 2
MaxSteps == 2
MaxExecutes == 1
DrawScale == 2
MaxDim == 3
MaxTimeSteps == 3

\* ------------------------------------------------------------- inputs
\* Node.local_coherence: float = 1.0
DefaultCoherence == 10
Ids == {"a", "b"}
DynamicsKinds == {"none", "advance", "raise"}
MapStateKinds == {"coherence", "raise"}
\* 0.0 and 1.0
FidelityVals == {0, DrawScale}
EntanglementVals == {10}
DtVals == {1, 3}
\* the values np.random.random() can return: [0, 1), 0.0 included
Draws == 0 .. (DrawScale - 1)
\* the sides of the square arrays, and what their cells hold
Dims == 2 .. MaxDim
Entries == {1, 2}

VARIABLES
    heap,              \* Node objects constructed so far, by reference
    nodes,             \* Hypergraph.nodes: references in dict order, one per id
    handovers,         \* Hypergraph.handovers
    global_coherence,  \* Hypergraph.global_coherence
    history,           \* Hypergraph.history
    dts,               \* dt of every evolve call that returned
    stepCalls,         \* number of evolve calls made, returned or raised
    executes,          \* number of explicit InterTheoryHandover.execute calls
    fired,             \* per handover, how often it passed the fidelity gate
    status,            \* "ok" or "raised": how the last evolve call ended
    log,               \* callbacks invoked by the last evolve or execute call, in order
    ret,               \* value returned by the last InterTheoryHandover.execute
    expr,              \* the expression text handed to ExpressionEngine.parse
    tensor,            \* the array bound to g in the ctx of the compiled function
    compiled,          \* the text the function returned by parse evaluates
    value              \* what calling the compiled function gave

gvars == <<heap, nodes, handovers, global_coherence, history, dts, stepCalls,
           executes, fired, status, log, ret>>

evars == <<expr, tensor, compiled, value>>

vars == <<heap, nodes, handovers, global_coherence, history, dts, stepCalls,
          executes, fired, status, log, ret, expr, tensor, compiled, value>>

\* ------------------------------------------------------------- numbers
RECURSIVE Gcd(_, _)
Gcd(a, b) == IF b = 0 THEN a ELSE Gcd(b, a % b)

NaN == [num |-> 0, den |-> 0]

Zero == [num |-> 0, den |-> 1]

Frac(n, d) == LET g == Gcd(n, d) IN [num |-> n \div g, den |-> d \div g]

RECURSIVE SumSeq(_)
SumSeq(s) == IF s = <<>> THEN 0 ELSE Head(s) + SumSeq(Tail(s))

\* np.mean of a list of floats; of the empty list it is nan (a RuntimeWarning,
\* no exception)
Mean(cs) == IF Len(cs) = 0 THEN NaN ELSE Frac(SumSeq(cs), Len(cs))

\* np.angle(complex(c, e)) = atan2(e, c), in milliradians, on the inputs used
Angle(c, e) ==
    IF e = 0 THEN (IF c >= 0 THEN 0 ELSE 3142)
    ELSE CASE c = 0  -> 1571
           [] c = 1  -> 1471
           [] c = 2  -> 1373
           [] c = 5  -> 1107
           [] c = 10 -> 785

\* ------------------------------------------------------------- values
None == [tag |-> "None", val |-> 0]
Some(v) == [tag |-> "value", val |-> v]
Raise == [tag |-> "raise", val |-> 0]

Event(e, w, s) == [ev |-> e, who |-> w, seen |-> s]

\* Node(id, state_space, attributes, local_coherence, dynamics, ...), as the
\* collaborators build them: "a" nodes carry a dynamics callback, "b" nodes
\* carry none and may expose update_from_handover (cap)
NodeInputs ==
    {n \in [id : Ids, local_coherence : {DefaultCoherence}, attributes : {0},
            dynamics : DynamicsKinds, cap : BOOLEAN] :
        /\ (n.id = "a") <=> (n.dynamics # "none")
        /\ n.cap => n.dynamics = "none"}

Refs == 1 .. Len(heap)

\* ------------------------------------------------------------- callbacks
\* A dynamics callback, called as dynamics(node, dt): the result is the node
\* as the callback leaves it, or raised.
\*   advance   as the warp bubble's, position += velocity * dt (velocity 1),
\*             and the node loses half of its local_coherence
\*   raise     a callback that raises
Dynamics(node, dt) ==
    CASE node.dynamics = "advance" ->
            [node |-> [node EXCEPT !.attributes = @ + dt,
                                   !.local_coherence = @ \div 2],
             raised |-> FALSE]
      [] node.dynamics = "raise" ->
            [node |-> node, raised |-> TRUE]

\* An evolve that moves a node without dynamics by a default drift
Node_evolveDrifts(node, dt) ==
    IF node.dynamics # "none"
    THEN Dynamics(node, dt)
    ELSE [node |-> [node EXCEPT !.attributes = @ + dt], raised |-> FALSE]

\* Node.evolve(dt)
Node_evolve(node, dt) ==
    IF node.dynamics # "none"
    THEN Dynamics(node, dt)
    ELSE [node |-> node, raised |-> FALSE]

\* A map_state callback, called as map_state(source)
MapState(kind, source) ==
    CASE kind = "coherence" -> Some(source.local_coherence)
      [] kind = "raise" -> Raise

\* target.update_from_handover(result), for a target that has the method: the
\* target takes the handed-over value as its local_coherence
UpdateFromHandover(node, result) == [node EXCEPT !.local_coherence = result]

\* A converter callback of an InterTheoryHandover, called as
\* converter(source_node, target_node): as vacuum_to_warp, it couples an
\* attribute of the source into an attribute of the target and returns the
\* coupling
Coupling(source) == source.attributes + 1

Converter(source, target) ==
    [target |-> [target EXCEPT !.attributes = @ + Coupling(source)],
     result |-> Coupling(source)]

\* ------------------------------------------------------------- handovers
\* Handover(id, source, target, protocol, map_state, fidelity, entanglement)
HandoverInputs ==
    {h \in [kind : {"Handover"}, source : Refs, target : Refs,
            map_state : MapStateKinds, fidelity : FidelityVals,
            entanglement : EntanglementVals, phase_accumulated : {0}] :
        /\ h.source # h.target
        /\ h.map_state = "raise" => h.fidelity = DrawScale}

\* InterTheoryHandover(source_model, target_model, converter)
InterTheoryInputs == [kind : {"InterTheoryHandover"}, converter : {"couple"}]

\* The fidelity gate of Handover.execute: TRUE when the handover is skipped
SkippedInverted(draw, fidelity) == draw < fidelity

Skipped(draw, fidelity) == draw > fidelity

Handover_executeAccumulatesFirst(h, source, draw) ==
    LET g == [h EXCEPT !.phase_accumulated =
                 @ + Angle(source.local_coherence, h.entanglement)]
    IN IF Skipped(draw, h.fidelity)
       THEN [h |-> g, result |-> None, fired |-> FALSE]
       ELSE [h |-> g, result |-> MapState(h.map_state, source), fired |-> TRUE]

\* Handover.execute(): h is the handover, source its source node as it is
\* now, draw the value of np.random.random().  The phase is added before
\* map_state is called, and stays added when map_state raises.
Handover_execute(h, source, draw) ==
    IF Skipped(draw, h.fidelity)
    THEN [h |-> h, result |-> None, fired |-> FALSE]
    ELSE [h |-> [h EXCEPT !.phase_accumulated =
                     @ + Angle(source.local_coherence, h.entanglement)],
          result |-> MapState(h.map_state, source),
          fired |-> TRUE]

\* InterTheoryHandover.execute(source_node, target_node)
InterTheoryHandover_execute(h, source, target) == Converter(source, target)

\* ------------------------------------------------------------- evolve
\* The places of the log where the i-th handover passed its gate
FiredAt(lg, i) == {k \in 1 .. Len(lg) : lg[k].ev = "map_state" /\ lg[k].who = i}

RECURSIVE EvolveNodesSwallow(_, _, _)
EvolveNodesSwallow(st, i, dt) ==
    IF i > Len(nodes) THEN st
    ELSE LET r == nodes[i]
             e == Node_evolve(st.heap[r], dt)
             lg == IF st.heap[r].dynamics # "none"
                   THEN Append(st.log, Event("dynamics", r, 0))
                   ELSE st.log
         IN EvolveNodesSwallow([st EXCEPT !.heap[r] = e.node, !.log = lg],
                               i + 1, dt)

\* Phase 1 of Hypergraph.evolve: "for node in self.nodes.values():
\* node.evolve(dt)", from the i-th node on.  st is [heap, hs, log, raised].
RECURSIVE EvolveNodes(_, _, _)
EvolveNodes(st, i, dt) ==
    IF i > Len(nodes) \/ st.raised THEN st
    ELSE LET r == nodes[i]
             e == Node_evolve(st.heap[r], dt)
             lg == IF st.heap[r].dynamics # "none"
                   THEN Append(st.log, Event("dynamics", r, 0))
                   ELSE st.log
         IN EvolveNodes([st EXCEPT !.heap[r] = e.node, !.log = lg,
                                   !.raised = e.raised], i + 1, dt)

\* The result of the i-th handover, a Handover, on the state st
ApplyResult(st, i, x, apply, raised) ==
    LET h == st.hs[i]
        lg == IF x.fired
              THEN Append(st.log, Event("map_state", i,
                                        st.heap[h.source].local_coherence))
              ELSE st.log
    IN [heap |-> IF apply
                 THEN [st.heap EXCEPT ![h.target] =
                          UpdateFromHandover(@, x.result.val)]
                 ELSE st.heap,
        hs |-> [st.hs EXCEPT ![i] = x.h],
        log |-> IF apply
                THEN Append(lg, Event("update_from_handover", i, x.result.val))
                ELSE lg,
        raised |-> raised]

HandoverStepNoHasattr(st, i, draw) ==
    LET h == st.hs[i] IN
    IF h.kind = "Handover"
    THEN LET x == Handover_execute(h, st.heap[h.source], draw)
             has == st.heap[h.target].cap
         IN ApplyResult(st, i, x, x.result.tag = "value" /\ has,
                        x.result.tag = "raise"
                        \/ (x.result.tag = "value" /\ ~has))
    ELSE st

HandoverStepFiresInterTheory(st, i, draw) ==
    LET h == st.hs[i] IN
    IF h.kind = "Handover"
    THEN LET x == Handover_execute(h, st.heap[h.source], draw)
         IN ApplyResult(st, i, x,
                        x.result.tag = "value" /\ st.heap[h.target].cap,
                        x.result.tag = "raise")
    ELSE IF Len(st.heap) = 0 THEN st
         ELSE [st EXCEPT
                 !.heap[1] = InterTheoryHandover_execute(h, @, @).target,
                 !.log = Append(@, Event("converter", i, 0))]

\* The body of "for h in self.handovers" for the i-th handover: a Handover is
\* executed and a result that is not None is applied to a target that has
\* update_from_handover; an InterTheoryHandover is passed over
HandoverStep(st, i, draw) ==
    LET h == st.hs[i] IN
    IF h.kind = "Handover"
    THEN LET x == Handover_execute(h, st.heap[h.source], draw)
         IN ApplyResult(st, i, x,
                        x.result.tag = "value" /\ st.heap[h.target].cap,
                        x.result.tag = "raise")
    ELSE st

\* A phase 2 that passes over a handover whose source or target is not a
\* node of the graph
RECURSIVE ExecuteHandoversMembersOnly(_, _, _)
ExecuteHandoversMembersOnly(st, i, draws) ==
    IF i > Len(st.hs) \/ st.raised THEN st
    ELSE LET member(r) == \E q \in 1 .. Len(nodes) : nodes[q] = r
             next == IF member(st.hs[i].source) /\ member(st.hs[i].target)
                     THEN HandoverStep(st, i, draws[i])
                     ELSE st
         IN ExecuteHandoversMembersOnly(next, i + 1, draws)

\* Phase 2 of Hypergraph.evolve, from the i-th handover on
RECURSIVE ExecuteHandovers(_, _, _)
ExecuteHandovers(st, i, draws) ==
    IF i > Len(st.hs) \/ st.raised THEN st
    ELSE ExecuteHandovers(HandoverStep(st, i, draws[i]), i + 1, draws)

\* [n.local_coherence for n in self.nodes.values()]
CoherencesOfAllObjects(hp) == [i \in 1 .. Len(hp) |-> hp[i].local_coherence]

Coherences(hp) == [i \in 1 .. Len(nodes) |-> hp[nodes[i]].local_coherence]

\* The record appended to history
RecordCountingCalls(dt, gc) == [time |-> stepCalls * dt, coherence |-> gc]

\* A record whose time divides by dt where the code multiplies
RecordDividing(dt, gc) == [time |-> Len(history) \div dt, coherence |-> gc]

Record(dt, gc) == [time |-> Len(history) * dt, coherence |-> gc]

\* Phases 1 and 2 in the order of the code
PhasesHandoversFirst(dt, draws) ==
    EvolveNodes(
        ExecuteHandovers([heap |-> heap, hs |-> handovers, log |-> <<>>,
                          raised |-> FALSE], 1, draws),
        1, dt)

Phases(dt, draws) ==
    ExecuteHandovers(
        EvolveNodes([heap |-> heap, hs |-> handovers, log |-> <<>>,
                     raised |-> FALSE], 1, dt),
        1, draws)

\* ------------------------------------------------------------- expressions
Digits == {"0", "1", "2", "3", "4", "5", "6", "7", "8", "9"}

Letters ==
    {"a", "b", "c", "d", "e", "f", "g", "h", "i", "j", "k", "l", "m", "n",
     "o", "p", "q", "r", "s", "t", "u", "v", "w", "x", "y", "z", "A", "B",
     "C", "D", "E", "F", "G", "H", "I", "J", "K", "L", "M", "N", "O", "P",
     "Q", "R", "S", "T", "U", "V", "W", "X", "Y", "Z"}

\* what \w of a regular expression matches
WordChars == Letters \cup Digits \cup {"_"}

\* The text s holds pat at position i
StartsWith(s, i, pat) ==
    /\ i + Len(pat) - 1 <= Len(s)
    /\ \A k \in 1 .. Len(pat) : s[i + k - 1] = pat[k]

\* str.replace(old, new) on s[i ..]: every occurrence, left to right
RECURSIVE Replace(_, _, _, _)
Replace(s, i, old, new) ==
    IF i > Len(s) THEN <<>>
    ELSE IF StartsWith(s, i, old)
         THEN new \o Replace(s, i + Len(old), old, new)
         ELSE <<s[i]>> \o Replace(s, i + 1, old, new)

\* ExpressionEngine.constants, each with the text str(val) gives
Constants ==
    << [name |-> <<"p", "i">>,
        str |-> <<"3", ".", "1", "4", "1", "5", "9", "2", "6", "5", "3",
                  "5", "8", "9", "7", "9", "3">>],
       [name |-> <<"c">>,
        str |-> <<"2", "9", "9", "7", "9", "2", "4", "5", "8", ".", "0">>],
       [name |-> <<"G">>,
        str |-> <<"6", ".", "6", "7", "4", "e", "-", "1", "1">>],
       [name |-> <<"h", "b", "a", "r">>,
        str |-> <<"1", ".", "0", "5", "5", "e", "-", "3", "4">>],
       [name |-> <<"k", "_", "B">>,
        str |-> <<"1", ".", "3", "8", "1", "e", "-", "2", "3">>] >>

\* for name, val in self.constants.items(): expr = expr.replace(name, str(val))
RECURSIVE ReplaceConstants(_, _)
ReplaceConstants(s, k) ==
    IF k > Len(Constants) THEN s
    ELSE ReplaceConstants(Replace(s, 1, Constants[k].name, Constants[k].str),
                          k + 1)

\* The length of the longest run of word characters of s that starts at i:
\* what a greedy \w+ takes
RECURSIVE WordRun(_, _)
WordRun(s, i) ==
    IF i <= Len(s) /\ s[i] \in WordChars THEN 1 + WordRun(s, i + 1) ELSE 0

\* re.sub(rf"{tensor_name}_(\w+)", rf"{tensor_name}[\1]", expr) on s[i ..]:
\* the whole run of word characters after "name_" goes between the brackets
RECURSIVE Sub(_, _, _)
Sub(s, i, tensor_name) ==
    IF i > Len(s) THEN <<>>
    ELSE LET pre == tensor_name \o <<"_">>
             n == WordRun(s, i + Len(pre))
         IN IF StartsWith(s, i, pre) /\ n >= 1
            THEN tensor_name \o <<"[">>
                    \o SubSeq(s, i + Len(pre), i + Len(pre) + n - 1)
                    \o <<"]">> \o Sub(s, i + Len(pre) + n, tensor_name)
            ELSE <<s[i]>> \o Sub(s, i + 1, tensor_name)

\* ExpressionEngine._expand_tensor_notation(expr, tensor_name)
_expand_tensor_notation(e, tensor_name) == Sub(e, 1, tensor_name)

\* The context of parse: one TENSOR variable, g
Context == << [name |-> <<"g">>, type |-> "TENSOR"] >>

\* f"context['{name}'].data"
ScalarText(name) ==
    <<"c", "o", "n", "t", "e", "x", "t", "[", "'">> \o name
        \o <<"'", "]", ".", "d", "a", "t", "a">>

\* for name, val in context.items(): a SCALAR is replaced by its lookup, a
\* TENSOR has its subscripts expanded
RECURSIVE ReplaceContext(_, _, _)
ReplaceContext(s, context, k) ==
    IF k > Len(context) THEN s
    ELSE ReplaceContext(
            CASE context[k].type = "SCALAR" ->
                    Replace(s, 1, context[k].name, ScalarText(context[k].name))
              [] context[k].type = "TENSOR" ->
                    _expand_tensor_notation(s, context[k].name)
              [] OTHER -> s,
            context, k + 1)

\* ExpressionEngine.parse(expr, context): the text the returned function
\* hands to eval
Parse(e, context) == ReplaceContext(ReplaceConstants(e, 1), context, 1)

\* What a failed evaluation raises
Raises(exc) == [tag |-> exc, val |-> 0]

DigitVal(d) ==
    CASE d = "0" -> 0 [] d = "1" -> 1 [] d = "2" -> 2 [] d = "3" -> 3
      [] d = "4" -> 4 [] d = "5" -> 5 [] d = "6" -> 6 [] d = "7" -> 7
      [] d = "8" -> 8 [] d = "9" -> 9

\* The digits of a token, its underscores left out
DigitsOf(tok) == SelectSeq(tok, LAMBDA ch : ch # "_")

\* Python's decimal integer literal: digits with single underscores between
\* them, and no leading zero unless every digit is zero
IsDecimalLiteral(tok) ==
    /\ Len(tok) >= 1
    /\ \A k \in 1 .. Len(tok) : tok[k] \in Digits \cup {"_"}
    /\ tok[1] # "_" /\ tok[Len(tok)] # "_"
    /\ \A k \in 1 .. (Len(tok) - 1) : ~(tok[k] = "_" /\ tok[k + 1] = "_")
    /\ \/ tok[1] # "0"
       \/ \A k \in 1 .. Len(tok) : tok[k] \in {"0", "_"}

RECURSIVE IntOf(_)
IntOf(ds) ==
    IF ds = <<>> THEN 0
    ELSE 10 * IntOf(SubSeq(ds, 1, Len(ds) - 1)) + DigitVal(ds[Len(ds)])

\* arr[k] of a two-dimensional array: row k (0-based), an array itself
Index1(arr, k) ==
    IF k < Len(arr) THEN [tag |-> "array", val |-> arr[k + 1]]
    ELSE Raises("IndexError")

\* arr[i, j] of a two-dimensional array: one cell
Index2(arr, i, j) ==
    IF i < Len(arr) /\ j < Len(arr[1])
    THEN [tag |-> "scalar", val |-> arr[i + 1][j + 1]]
    ELSE Raises("IndexError")

\* eval of "g[tok]" with g bound to arr and tok one run of word characters:
\* a decimal literal indexes, any other token that starts with a digit is
\* not Python, and a name is looked up and not found
EvalSubscript(arr, tok) ==
    IF tok[1] \in Digits
    THEN IF IsDecimalLiteral(tok)
         THEN Index1(arr, IntOf(DigitsOf(tok)))
         ELSE Raises("SyntaxError")
    ELSE Raises("NameError")

\* eval(text, {"__builtins__": {}}, {**functions, "g": arr}) on the texts
\* of the form g[tok]
Eval(text, arr) ==
    IF /\ Len(text) >= 4
       /\ SubSeq(text, 1, 2) = <<"g", "[">>
       /\ text[Len(text)] = "]"
       /\ \A k \in 3 .. (Len(text) - 1) : text[k] \in WordChars
    THEN EvalSubscript(arr, SubSeq(text, 3, Len(text) - 1))
    ELSE Raises("SyntaxError")

DigitText(i) ==
    CASE i = 0 -> "0" [] i = 1 -> "1" [] i = 2 -> "2" [] i = 3 -> "3"
      [] i = 4 -> "4" [] i = 5 -> "5" [] i = 6 -> "6" [] i = 7 -> "7"
      [] i = 8 -> "8" [] i = 9 -> "9"

\* The expression "g_i_j"
TensorRef(i, j) == <<"g", "_", DigitText(i), "_", DigitText(j)>>

ExprInputs == {TensorRef(i, j) : i, j \in 0 .. (MaxDim - 1)}

\* The square arrays
TensorInputs ==
    UNION {[1 .. d -> [1 .. d -> Entries]] : d \in Dims}

\* ------------------------------------------------------------- actions
\* Hypergraph(name)
Init ==
    /\ heap = <<>>
    /\ nodes = <<>>
    /\ handovers = <<>>
    /\ global_coherence = Zero
    /\ history = <<>>
    /\ dts = <<>>
    /\ stepCalls = 0
    /\ executes = 0
    /\ fired = <<>>
    /\ status = "ok"
    /\ log = <<>>
    /\ ret = None
    /\ expr = <<>>
    /\ tensor = <<>>
    /\ compiled = <<>>
    /\ value = None

\* A collaborator constructs a Node
NewNode(n) ==
    /\ UNCHANGED evars
    /\ Len(heap) < MaxObjs
    /\ heap' = Append(heap, n)
    /\ UNCHANGED <<nodes, handovers, global_coherence, history, dts,
                   stepCalls, executes, fired, status, log, ret>>

\* A registry keyed by the object instead of by its id
PutByObject(r) ==
    IF \E i \in 1 .. Len(nodes) : nodes[i] = r THEN nodes ELSE Append(nodes, r)

\* self.nodes[node.id] = node: a dict keeps the place of a key it replaces
Put(r) ==
    IF \E i \in 1 .. Len(nodes) : heap[nodes[i]].id = heap[r].id
    THEN [i \in 1 .. Len(nodes) |->
             IF heap[nodes[i]].id = heap[r].id THEN r ELSE nodes[i]]
    ELSE Append(nodes, r)

\* Hypergraph.add_node(node)
add_node(r) ==
    /\ UNCHANGED evars
    /\ nodes' = Put(r)
    /\ UNCHANGED <<heap, handovers, global_coherence, history, dts,
                   stepCalls, executes, fired, status, log, ret>>

\* Hypergraph.add_handover(handover)
add_handover(h) ==
    /\ UNCHANGED evars
    /\ Len(handovers) < MaxHandovers
    /\ handovers' = Append(handovers, h)
    /\ fired' = Append(fired, 0)
    /\ UNCHANGED <<heap, nodes, global_coherence, history, dts,
                   stepCalls, executes, status, log, ret>>

\* Hypergraph.evolve(dt), with draws[i] the random draw of the i-th handover
Hypergraph_evolve(dt, draws) ==
    /\ UNCHANGED evars
    /\ stepCalls' = stepCalls + 1
    /\ LET st == Phases(dt, draws)
           gc == Mean(Coherences(st.heap))
       IN /\ heap' = st.heap
          /\ handovers' = st.hs
          /\ fired' = [i \in 1 .. Len(fired) |->
                          fired[i] + Cardinality(FiredAt(st.log, i))]
          /\ IF st.raised
             THEN /\ status' = "raised"
                  /\ log' = st.log
                  /\ UNCHANGED <<global_coherence, history, dts>>
             ELSE /\ status' = "ok"
                  /\ log' = Append(st.log, Event("metrics", 0, 0))
                  /\ global_coherence' = gc
                  /\ history' = Append(history, Record(dt, gc))
                  /\ dts' = Append(dts, dt)
    /\ UNCHANGED <<nodes, executes, ret>>

\* A collaborator calls handovers[i].execute(source_node, target_node) on an
\* InterTheoryHandover
Execute(i, s, t) ==
    /\ UNCHANGED evars
    /\ executes < MaxExecutes
    /\ handovers[i].kind = "InterTheoryHandover"
    /\ s # t
    /\ executes' = executes + 1
    /\ LET x == InterTheoryHandover_execute(handovers[i], heap[s], heap[t])
       IN /\ heap' = [heap EXCEPT ![t] = x.target]
          /\ ret' = Some(x.result)
          /\ log' = <<Event("converter", i, 0)>>
    /\ UNCHANGED <<nodes, handovers, global_coherence, history, dts,
                   stepCalls, fired, status>>

Next ==
    \/ \E n \in NodeInputs : NewNode(n)
    \/ \E r \in Refs : add_node(r)
    \/ \E h \in HandoverInputs \cup InterTheoryInputs : add_handover(h)
    \/ \E dt \in DtVals, draws \in [1 .. Len(handovers) -> Draws] :
          stepCalls < MaxSteps /\ Hypergraph_evolve(dt, draws)
    \/ \E i \in 1 .. Len(handovers), s \in Refs, t \in Refs : Execute(i, s, t)

Spec == Init /\ [][Next]_vars

\* fn = ExpressionEngine().parse(expr, context)
ExpressionEngine_parse ==
    /\ expr # <<>> /\ compiled = <<>>
    /\ compiled' = Parse(expr, Context)
    /\ UNCHANGED <<expr, tensor, value>>
    /\ UNCHANGED gvars

\* fn({"g": tensor})
Call ==
    /\ compiled # <<>> /\ value = None
    /\ value' = Eval(compiled, tensor)
    /\ UNCHANGED <<expr, tensor, compiled>>
    /\ UNCHANGED gvars

\* An expression g_i_j and a square array to evaluate it on
InitTensor ==
    /\ heap = <<>>
    /\ nodes = <<>>
    /\ handovers = <<>>
    /\ global_coherence = Zero
    /\ history = <<>>
    /\ dts = <<>>
    /\ stepCalls = 0
    /\ executes = 0
    /\ fired = <<>>
    /\ status = "ok"
    /\ log = <<>>
    /\ ret = None
    /\ expr \in ExprInputs
    /\ tensor \in TensorInputs
    /\ compiled = <<>>
    /\ value = None

NextTensor ==
    \/ ExpressionEngine_parse
    \/ Call

SpecTensor == InitTensor /\ [][NextTensor]_vars

\* A graph of nodes without handovers, stepped up to MaxTimeSteps times,
\* each call with a dt of its own
NextTime ==
    \/ \E n \in NodeInputs : NewNode(n)
    \/ \E r \in Refs : add_node(r)
    \/ \E dt \in DtVals :
          stepCalls < MaxTimeSteps /\ Hypergraph_evolve(dt, <<>>)

SpecTime == Init /\ [][NextTime]_vars


\* ------------------------------------------------------------- claims
\* This step is a call of Hypergraph.evolve
EvolveStep == stepCalls' = stepCalls + 1

\* This step is a call of Hypergraph.evolve that returned
Returned == EvolveStep /\ status' = "ok"

\* This step is an explicit call of InterTheoryHandover.execute
ExecuteStep == executes' = executes + 1

HandoverIdx == {i \in 1 .. Len(handovers) : handovers[i].kind = "Handover"}

One == DrawScale

\* The local_coherence the i-th handover's map_state saw in the logged call
SeenBy(lg, i) == lg[CHOOSE k \in FiredAt(lg, i) : TRUE].seen

\* C1: in a step that returns, if every Handover has fidelity 1.0 then,
\* whatever the draws, every Handover fires exactly once: map_state is
\* invoked once and phase_accumulated grows by one angle.
C1_FullFidelityFiresAll ==
    [][(Returned /\ \A i \in HandoverIdx : handovers[i].fidelity = One)
        => \A i \in HandoverIdx :
              /\ Cardinality(FiredAt(log', i)) = 1
              /\ fired'[i] = fired[i] + 1
              /\ handovers'[i].phase_accumulated =
                    handovers[i].phase_accumulated
                    + Angle(SeenBy(log', i), handovers[i].entanglement)]_vars

C1_Witness ==
    /\ stepCalls = 1 /\ status = "ok"
    /\ Len(handovers) = 2
    /\ \A i \in 1 .. 2 :
          /\ handovers[i].kind = "Handover"
          /\ handovers[i].fidelity = One
          /\ fired[i] = 1
          /\ handovers[i].phase_accumulated > 0

\* C2: in a step where every Handover has fidelity 0.0, whatever the draws,
\* the draw 0.0 included, no Handover fires: map_state is not invoked and no
\* phase_accumulated changes.
C2_ZeroFidelityFiresNone ==
    [][(EvolveStep /\ \A i \in HandoverIdx : handovers[i].fidelity = 0)
        => \A i \in HandoverIdx :
              /\ FiredAt(log', i) = {}
              /\ handovers'[i].phase_accumulated =
                    handovers[i].phase_accumulated]_vars

\* The sum of the local_coherence of the nodes ns[1..n] in the heap hp
RECURSIVE CoherenceSum(_, _, _)
CoherenceSum(ns, hp, n) ==
    IF n = 0 THEN 0 ELSE hp[ns[n]].local_coherence + CoherenceSum(ns, hp, n - 1)

\* C3: after a step that returns on a graph of N >= 1 nodes,
\* global_coherence is (sum of c_i) / N over the nodes in graph.nodes, with
\* the local_coherence they hold at the end of the step.
C3_GlobalCoherenceIsMean ==
    [][(Returned /\ Len(nodes) >= 1)
        => /\ global_coherence'.den > 0
           /\ global_coherence'.num * Len(nodes') =
                 global_coherence'.den * CoherenceSum(nodes', heap', Len(nodes'))]_vars

C3_Witness ==
    /\ stepCalls = 1 /\ status = "ok"
    /\ Len(nodes) = 2 /\ Len(heap) = 2
    /\ heap[nodes[1]].local_coherence = 5
    /\ heap[nodes[2]].local_coherence = 10
    /\ global_coherence = [num |-> 15, den |-> 2]

\* C4: history is append-only and grows by exactly one record per step that
\* returns: the new record has time = (records before) * dt and coherence =
\* the global_coherence of that step, earlier records stay as they are, and
\* no other operation touches history; so the j-th record (0-based) of k
\* steps has time j * dt_j, which is j * dt when dt is the same in all.
C4_HistoryAppendOnly ==
    [][/\ Returned =>
            /\ history' = Append(history,
                                 [time |-> Len(history) * dts'[Len(dts')],
                                  coherence |-> global_coherence'])
            /\ Len(history') = Len(dts')
            /\ \A j \in 1 .. Len(history') :
                  history'[j].time = (j - 1) * dts'[j]
       /\ ~Returned => history' = history]_vars

C4_Witness ==
    /\ stepCalls = 2 /\ Len(history) = 2
    /\ dts = <<3, 3>>
    /\ history[1].time = 0 /\ history[2].time = 3
    /\ history[2].coherence = global_coherence
    /\ history[1].coherence # history[2].coherence

InGraph(r) == \E q \in 1 .. Len(nodes) : nodes[q] = r

HandoverEvents == {"map_state", "update_from_handover"}

\* The logged event is a callback that raises
Raiser(e) ==
    \/ e.ev = "dynamics" /\ heap[e.who].dynamics = "raise"
    \/ e.ev = "map_state" /\ handovers[e.who].map_state = "raise"

\* The local_coherence node r holds once phase 1 of this step is over
AfterDynamics(r) ==
    IF InGraph(r) THEN Node_evolve(heap[r], 0).node.local_coherence
    ELSE heap[r].local_coherence

\* The places before k of the log where a handover updated node r
UpdatesOf(lg, r, k) ==
    {j \in 1 .. (k - 1) :
        lg[j].ev = "update_from_handover" /\ handovers[lg[j].who].target = r}

Latest(S) == CHOOSE j \in S : \A m \in S : m <= j

\* C5: within one step every dynamics callback runs before any handover,
\* the handovers run one at a time in list order, and the metrics come
\* last; so map_state sees its source as this step's dynamics and the
\* earlier handovers of this step have left it.
C5_PhaseOrder ==
    [][EvolveStep =>
        LET lg == log' IN
        /\ \A j, k \in 1 .. Len(lg) :
              (j < k /\ lg[j].ev \in HandoverEvents) => lg[k].ev # "dynamics"
        /\ (\E k \in 1 .. Len(lg) : lg[k].ev \in HandoverEvents) =>
              \A q \in 1 .. Len(nodes) :
                  heap[nodes[q]].dynamics # "none" =>
                      \E k \in 1 .. Len(lg) :
                          lg[k].ev = "dynamics" /\ lg[k].who = nodes[q]
        /\ \A j, k \in 1 .. Len(lg) :
              (j < k /\ lg[j].ev \in HandoverEvents /\ lg[k].ev = "map_state")
                  => lg[j].who < lg[k].who
        /\ \A k \in 1 .. Len(lg) :
              lg[k].ev = "update_from_handover" =>
                  k > 1 /\ lg[k - 1].ev = "map_state" /\ lg[k - 1].who = lg[k].who
        /\ \A k \in 1 .. Len(lg) : lg[k].ev = "metrics" => k = Len(lg)
        /\ status' = "ok" => Len(lg) > 0 /\ lg[Len(lg)].ev = "metrics"
        /\ \A k \in 1 .. Len(lg) :
              lg[k].ev = "map_state" =>
                  LET r == handovers[lg[k].who].source
                      ups == UpdatesOf(lg, r, k)
                  IN lg[k].seen = IF ups # {} THEN lg[Latest(ups)].seen
                                  ELSE AfterDynamics(r)]_vars

C5_Witness ==
    /\ stepCalls = 1 /\ status = "ok"
    /\ Len(log) = 5
    /\ log[1].ev = "dynamics"
    /\ log[2].ev = "map_state" /\ log[2].who = 1 /\ log[2].seen = 5
    /\ log[3].ev = "update_from_handover" /\ log[3].who = 1
    /\ log[4].ev = "map_state" /\ log[4].who = 2 /\ log[4].seen = 5
    /\ log[5].ev = "metrics"

\* Nothing in the model assigns the local_coherence of such a node
FixedCoherence(r) == heap[r].dynamics # "advance" /\ ~heap[r].cap

PhaseIsCount(i) ==
    handovers[i].phase_accumulated =
        fired[i] * Angle(heap[handovers[i].source].local_coherence,
                         handovers[i].entanglement)

\* C6: a step in which the handover is skipped leaves phase_accumulated
\* as it is and a step in which it fires adds angle(local_coherence +
\* i*entanglement) of its source; with the source's local_coherence and the
\* entanglement fixed, phase_accumulated is (number of firings) times that
\* angle, twice the angle after two firings.
C6_PhaseAccumulation ==
    [][/\ \A i \in HandoverIdx :
              handovers'[i].phase_accumulated =
                  handovers[i].phase_accumulated
                  + (IF EvolveStep /\ FiredAt(log', i) # {}
                     THEN Angle(SeenBy(log', i), handovers[i].entanglement)
                     ELSE 0)
       /\ \A i \in HandoverIdx :
              (FixedCoherence(handovers[i].source) => PhaseIsCount(i))']_vars

C6_Witness ==
    /\ stepCalls = 2
    /\ \E i, j \in HandoverIdx :
          /\ FixedCoherence(handovers[i].source)
          /\ FixedCoherence(handovers[j].source)
          /\ fired[i] = 2
          /\ handovers[i].phase_accumulated = 2 * Angle(DefaultCoherence, 10)
          /\ fired[j] = 1
          /\ handovers[j].phase_accumulated = Angle(DefaultCoherence, 10)

\* The i-th handover fired in this step, map_state returned a value, and its
\* target has no update_from_handover
DroppedResult(i) ==
    /\ FiredAt(log', i) # {}
    /\ handovers[i].map_state = "coherence"
    /\ ~heap[handovers[i].target].cap

\* C7: when a Handover fires, map_state returns a value and the target has
\* no update_from_handover, the value is dropped: nothing is raised for it,
\* the handover leaves the target's attributes and local_coherence alone,
\* and the step goes on to the metrics and the history record.
C7_MissingCapabilityIsNoOp ==
    [][EvolveStep =>
        \A i \in HandoverIdx :
            DroppedResult(i) =>
                LET t == handovers[i].target IN
                /\ \A k \in 1 .. Len(log') :
                      ~(log'[k].ev = "update_from_handover" /\ log'[k].who = i)
                /\ \E dt \in DtVals :
                      heap'[t] = IF InGraph(t) THEN Node_evolve(heap[t], dt).node
                                 ELSE heap[t]
                /\ status' = "raised" => Raiser(log'[Len(log')])
                /\ status' = "ok" =>
                      /\ Len(history') = Len(history) + 1
                      /\ history'[Len(history')].coherence = global_coherence'
                      /\ Len(nodes) >= 1 =>
                            global_coherence'.num * Len(nodes) =
                                global_coherence'.den
                                * CoherenceSum(nodes, heap', Len(nodes))]_vars

C7_Witness ==
    /\ stepCalls = 1 /\ status = "ok"
    /\ Len(nodes) = 2 /\ Len(handovers) = 1
    /\ handovers[1].source = nodes[1] /\ handovers[1].target = nodes[2]
    /\ ~heap[nodes[2]].cap
    /\ fired = <<1>>
    /\ log = <<Event("dynamics", nodes[1], 0), Event("map_state", 1, 5),
               Event("metrics", 0, 0)>>
    /\ heap[nodes[2]].local_coherence = DefaultCoherence
    /\ global_coherence = [num |-> 15, den |-> 2]
    /\ Len(history) = 1

Converted(lg) == {k \in 1 .. Len(lg) : lg[k].ev = "converter"}

\* C8: a step never invokes the converter of an InterTheoryHandover of the
\* handover list and changes no node on its account; the converter runs
\* only in an explicit execute(source_node, target_node), which has no
\* fidelity gate: it invokes the converter exactly once and returns its
\* result.
C8_InterTheoryNotAutoFired ==
    [][/\ EvolveStep =>
            /\ Converted(log') = {}
            /\ ret' = ret
            /\ \A r \in Refs :
                  heap'[r] # heap[r] =>
                      \/ InGraph(r) /\ heap[r].dynamics # "none"
                      \/ \E k \in 1 .. Len(log') :
                            /\ log'[k].ev = "update_from_handover"
                            /\ handovers[log'[k].who].kind = "Handover"
                            /\ handovers[log'[k].who].target = r
       /\ ExecuteStep =>
            /\ Cardinality(Converted(log')) = 1
            /\ Len(log') = 1
            /\ handovers[log'[1].who].kind = "InterTheoryHandover"
            /\ \E src, tgt \in Refs :
                  /\ ret' = Some(Coupling(heap[src]))
                  /\ heap' = [heap EXCEPT ![tgt].attributes = @ + ret'.val]
       /\ (~EvolveStep /\ ~ExecuteStep) => log' = log /\ ret' = ret]_vars

C8_Witness ==
    /\ stepCalls = 2 /\ status = "ok" /\ executes = 1
    /\ Len(handovers) = 2
    /\ handovers[1].kind = "InterTheoryHandover"
    /\ handovers[2].kind = "InterTheoryHandover"
    /\ Len(nodes) = 2
    /\ log = <<Event("metrics", 0, 0)>>
    /\ ret = Some(1)
    /\ \E r \in Refs : heap[r].attributes = 1

\* C9: a step on a graph with zero nodes never leaves not-a-number in
\* global_coherence or in a history record.
C9_NoNaNOnEmptyGraph ==
    /\ global_coherence # NaN
    /\ \A j \in 1 .. Len(history) : history[j].coherence # NaN

\* C10: an error raised by a dynamics or map_state callback ends the step
\* there and reaches the caller: the raising callback is the last thing the
\* step did, no later node or handover is processed, global_coherence and
\* history stay as they were; and a step never goes on past a callback
\* that raised.
C10_CallbackErrorsPropagate ==
    [][EvolveStep =>
        LET lg == log' IN
        /\ \A k \in 1 .. Len(lg) : Raiser(lg[k]) => k = Len(lg) /\ status' = "raised"
        /\ (\E q \in 1 .. Len(nodes) : heap[nodes[q]].dynamics = "raise")
              => status' = "raised"
        /\ status' = "raised" =>
              /\ Len(lg) > 0 /\ Raiser(lg[Len(lg)])
              /\ global_coherence' = global_coherence
              /\ history' = history
              /\ LET e == lg[Len(lg)] IN
                 IF e.ev = "dynamics"
                 THEN /\ handovers' = handovers
                      /\ \A q \in 1 .. Len(nodes) :
                            (\E p \in 1 .. (q - 1) : nodes[p] = e.who)
                                => heap'[nodes[q]] = heap[nodes[q]]
                 ELSE \A j \in (e.who + 1) .. Len(handovers) :
                            handovers'[j] = handovers[j]]_vars

C10_Witness ==
    /\ stepCalls = 1 /\ status = "raised"
    /\ history = <<>> /\ global_coherence = Zero
    /\ Len(handovers) = 2
    /\ handovers[1].kind = "Handover" /\ handovers[1].map_state = "raise"
    /\ handovers[2].kind = "Handover" /\ handovers[2].fidelity = One
    /\ fired = <<1, 0>>
    /\ handovers[1].phase_accumulated > 0
    /\ handovers[2].phase_accumulated = 0
    /\ Len(nodes) = 1 /\ heap[nodes[1]].dynamics = "advance"
    /\ heap[nodes[1]].attributes > 0


\* No two entries of the registry ns carry the same id
UniqueIds(ns, hp) ==
    \A p, q \in 1 .. Len(ns) : hp[ns[p]].id = hp[ns[q]].id => p = q

\* C11: add_node inserts or replaces by id, last write wins: after a call
\* that changes graph.nodes there is exactly one node per distinct id, the
\* node passed in holds its id, every other id keeps the node (and the place)
\* it had, nothing is added besides, and no other part of the graph changes.
C11_AddNodeLastWriteWins ==
    [][nodes' # nodes
        => /\ UniqueIds(nodes', heap')
           /\ UNCHANGED <<heap, handovers, global_coherence, history>>
           /\ \E r \in Refs :
                 /\ \E p \in 1 .. Len(nodes') : nodes'[p] = r
                 /\ \A p \in 1 .. Len(nodes) :
                       heap[nodes[p]].id # heap[r].id
                          => p <= Len(nodes') /\ nodes'[p] = nodes[p]
                 /\ \A p \in 1 .. Len(nodes') :
                       nodes'[p] # r
                          => p <= Len(nodes) /\ nodes'[p] = nodes[p]]_vars

\* Object 1 was a graph node during a step, then object 2 of the same id
\* took its place
C11_Witness ==
    /\ Len(heap) = 2 /\ heap[1].id = heap[2].id
    /\ executes = 0 /\ stepCalls = 1
    /\ heap[1].attributes > 0
    /\ nodes = <<2>>

\* The array bound to g has a cell [i, j]
Cell(i, j) == i < Len(tensor) /\ j < Len(tensor)

\* C12: with a TENSOR variable g in the context, the function compiled from
\* g_i_j evaluates to the cell g[i, j], for every index pair of every square
\* array: the rewrite gives the two-index lookup g[i, j].
C12_TensorSubscriptIsTwoIndex ==
    \A i, j \in 0 .. (MaxDim - 1) :
        (expr = TensorRef(i, j) /\ Cell(i, j))
            => /\ compiled # <<>>
                    => compiled = <<"g", "[", DigitText(i), ",", " ",
                                    DigitText(j), "]">>
               /\ value # None
                    => /\ value.tag = "scalar"
                       /\ value.val = tensor[i + 1][j + 1]

\* The source or the target of the i-th handover is not a node of the graph
Dangling(i) ==
    ~InGraph(handovers[i].source) \/ ~InGraph(handovers[i].target)

\* The fields of a handover that say what it is and what it connects
Ends(h) ==
    IF h.kind = "Handover" THEN <<h.kind, h.source, h.target>> ELSE <<h.kind>>

\* C13: add_handover appends the handover as given, endpoints unchecked, and
\* no step reorders or drops a handover.  In a step a Handover whose source
\* or target is not a node of the graph fires like any other and acts on the
\* objects it was given (a full-fidelity one passes its gate once, reads its
\* source and updates a target that has update_from_handover), while an
\* object that is not in graph.nodes is not evolved in phase 1 and is not
\* counted in global_coherence.
C13_DanglingHandoversFire ==
    [][/\ Len(handovers') >= Len(handovers)
       /\ \A i \in 1 .. Len(handovers) : Ends(handovers'[i]) = Ends(handovers[i])
       /\ Len(handovers') > Len(handovers)
            => /\ handovers' = Append(handovers, handovers'[Len(handovers')])
               /\ UNCHANGED <<heap, nodes, global_coherence, history>>
       /\ EvolveStep
            => \A r \in Refs :
                  ~InGraph(r)
                     => /\ \A k \in 1 .. Len(log') :
                              ~(log'[k].ev = "dynamics" /\ log'[k].who = r)
                        /\ heap'[r].attributes = heap[r].attributes
                        /\ heap'[r].local_coherence # heap[r].local_coherence
                              => UpdatesOf(log', r, Len(log') + 1) # {}
       /\ (Returned /\ Len(nodes) >= 1)
            => global_coherence'.num * Len(nodes) =
                  global_coherence'.den * CoherenceSum(nodes, heap', Len(nodes))
       /\ Returned
            => \A i \in HandoverIdx :
                  (Dangling(i) /\ handovers[i].fidelity = One)
                     => /\ Cardinality(FiredAt(log', i)) = 1
                        /\ handovers'[i].phase_accumulated =
                              handovers[i].phase_accumulated
                              + Angle(SeenBy(log', i), handovers[i].entanglement)
                        /\ ~InGraph(handovers[i].source)
                              => SeenBy(log', i) =
                                    IF UpdatesOf(log', handovers[i].source,
                                                 Latest(FiredAt(log', i))) = {}
                                    THEN heap[handovers[i].source].local_coherence
                                    ELSE log'[Latest(UpdatesOf(log',
                                                 handovers[i].source,
                                                 Latest(FiredAt(log', i))))].seen
                        /\ heap[handovers[i].target].cap
                              => \E k \in 1 .. Len(log') :
                                    /\ log'[k] = Event("update_from_handover", i,
                                                       SeenBy(log', i))
                                    /\ UpdatesOf(log', handovers[i].target,
                                                 Len(log') + 1) \subseteq 1 .. k
                                          => heap'[handovers[i].target]
                                                .local_coherence = SeenBy(log', i)]_vars

\* Object 1 was never a node of the graph: two steps left it as built while
\* the handover that reads it fired in both, and only node 2 is counted
C13_Witness ==
    /\ stepCalls = 2 /\ status = "ok" /\ executes = 0
    /\ Len(heap) = 2 /\ nodes = <<2>>
    /\ heap[1].dynamics = "advance" /\ heap[1].attributes = 0
    /\ heap[1].local_coherence = DefaultCoherence
    /\ heap[2].local_coherence = 2
    /\ Len(handovers) = 1
    /\ handovers[1].kind = "Handover"
    /\ handovers[1].source = 1 /\ handovers[1].target = 2
    /\ fired = <<2>>
    /\ handovers[1].phase_accumulated = 2 * Angle(DefaultCoherence, 10)
    /\ global_coherence = [num |-> 2, den |-> 1]

\* C14: when a Handover passes its fidelity gate and map_state then raises,
\* the step leaves that handover's phase_accumulated as it was.
C14_RaisingMapStateLeavesPhase ==
    [][EvolveStep
        => \A i \in HandoverIdx :
              (FiredAt(log', i) # {} /\ handovers[i].map_state = "raise")
                 => handovers'[i].phase_accumulated =
                       handovers[i].phase_accumulated]_vars

\* Some handover that fired in the step logged in lg has r as its target
TargetOfFiring(lg, r) ==
    \E i \in HandoverIdx : FiredAt(lg, i) # {} /\ handovers[i].target = r

\* C15: a step adds, removes and replaces no entry of graph.nodes, keeps
\* the handover sequence, and changes of a handover nothing but
\* phase_accumulated (fidelity, entanglement, source and target stay); a
\* node without dynamics that is not the target of a firing handover is the
\* same before and after, attributes and local_coherence included; and a
\* skipped handover updates nothing: no update_from_handover is made for it
\* and its phase_accumulated stays.
C15_StepFrame ==
    [][EvolveStep
        => /\ nodes' = nodes
           /\ Len(heap') = Len(heap)
           /\ Len(handovers') = Len(handovers)
           /\ \A i \in 1 .. Len(handovers) :
                 handovers'[i] =
                    IF handovers[i].kind = "Handover"
                    THEN [handovers[i] EXCEPT !.phase_accumulated =
                             handovers'[i].phase_accumulated]
                    ELSE handovers[i]
           /\ \A r \in Refs :
                 (heap[r].dynamics = "none" /\ ~TargetOfFiring(log', r))
                    => heap'[r] = heap[r]
           /\ \A i \in HandoverIdx :
                 FiredAt(log', i) = {}
                    => /\ \A k \in 1 .. Len(log') :
                             ~(log'[k].ev = "update_from_handover"
                               /\ log'[k].who = i)
                       /\ handovers'[i] = handovers[i]]_vars

\* A step evolved node 1 and skipped the handover into node 2, which has no
\* dynamics and has update_from_handover: node 2 is as it was built
C15_Witness ==
    /\ stepCalls = 1 /\ status = "ok" /\ executes = 0
    /\ nodes = <<1, 2>>
    /\ heap[1].dynamics = "advance" /\ heap[1].local_coherence = 5
    /\ heap[2].dynamics = "none" /\ heap[2].cap
    /\ heap[2].attributes = 0 /\ heap[2].local_coherence = DefaultCoherence
    /\ Len(handovers) = 1
    /\ handovers[1].kind = "Handover"
    /\ handovers[1].source = 1 /\ handovers[1].target = 2
    /\ fired = <<0>>
    /\ handovers[1].phase_accumulated = 0

\* C16 as stated: whatever positive dt each call is given, the times in
\* history are non-decreasing in record order.
C16_TimesNonDecreasing ==
    \A j \in 1 .. (Len(history) - 1) : history[j].time <= history[j + 1].time

\* C16: the time of a record is not below the time of the record before it
\* whenever the call that wrote it had a dt not below the dt of the call
\* that wrote the one before (so always when dt is the same in all calls).
C16_TimesNonDecreasingUnderNonDecreasingDt ==
    /\ Len(dts) = Len(history)
    /\ \A j \in 1 .. (Len(history) - 1) :
          dts[j] <= dts[j + 1] => history[j].time <= history[j + 1].time

\* Three steps with dt 1, 3, 3
C16_Witness ==
    /\ dts = <<1, 3, 3>>
    /\ Len(history) = 3
    /\ history[1].time = 0 /\ history[2].time = 3 /\ history[3].time = 6

=========================================================================
